---- MODULE Spec2Model ----
(***************************************************************************)
(* Lifecycle of the trading bot process of src/main.py: the TradingBot     *)
(* orchestrator, its probe handlers, the startup sequence of main(), the   *)
(* deployment entry create_app()/init_bot, and termination signals.        *)
(*                                                                         *)
(* Python objects are records tagged with their type, so that any two of   *)
(* them can be compared.  One step of the model is one synchronous piece   *)
(* of code: probe handlers and the preload task run on the same event loop *)
(* as main() and init_bot, so they are enabled only while those are        *)
(* suspended at an await; signals are delivered between any two steps.     *)
(***************************************************************************)
EXTENDS Integers, Sequences, FiniteSets, TLC

VARIABLES
    entry,              \* "script": python main.py; "import": a host imports the module
    loop_running,       \* an asyncio event loop is running in the main thread
    pc,                 \* position of main()
    pc_init,            \* position of create_app's init_bot task
    bot,                \* main()'s local TradingBot (line 139)
    bot_instance,       \* module global bot_instance (lines 219, 229)
    app,                \* module global app (lines 218, 226)
    server,             \* the aiohttp runner behind bot.health_server
    app_serving,        \* the deployment host serves the application create_app returned
    preload,            \* the task of preloader.start_preloading()
    waited,             \* time units main() has spent in wait_for (line 171)
    handler_run,        \* telegram_handler.run()
    pending,            \* exception main() is unwinding with, inside finally
    exit_code,          \* exit status of the process, Running while it lives
    events,             \* records written through secure_logger, in order
    teardown,           \* cleanup steps carried out by main()'s finally block, in order
    signals,            \* number of SIGINT/SIGTERM delivered so far
    sig_in_ready,       \* a termination signal arrived while main() was serving in Ready
    handlers_installed, \* setup_signal_handlers has registered signal_handler
    create_calls,       \* number of create_app() calls so far
    ready_reports,      \* calls of metrics.set_ready_status(True) made so far
    resp,               \* last probe response sent
    nprobes             \* number of probes answered

vars == <<entry, loop_running, pc, pc_init, bot, bot_instance, app, server,
          app_serving, preload, waited, handler_run, pending, exit_code,
          events, teardown, signals, sig_in_ready, handlers_installed,
          create_calls, ready_reports, resp, nprobes>>

----------------------------------------------------------------------------
\* Bounds of the model.
MaxSignals == 2
MaxProbes == 2
MaxCreateCalls == 2

\* asyncio.wait_for(preload_task, timeout=30.0)
PRELOAD_TIMEOUT == 30

\* exit_code of a process that has not exited
Running == -1
\* exit statuses the runtime gives: uncaught KeyboardInterrupt, death by SIGTERM
EXIT_SIGINT == 130
EXIT_SIGTERM == 143

----------------------------------------------------------------------------
\* Python values.
None == [type |-> "NoneType"]
TelegramHandlerObj == [type |-> "TelegramHandler"]
AppRunnerObj == [type |-> "AppRunner"]
ApplicationObj == [type |-> "Application"]
ConfigObj == [type |-> "Config"]

\* TradingBot.__init__
TradingBot_init ==
    [telegram_handler |-> None, health_server |-> None, is_ready |-> FALSE,
     config |-> None]

Count(seq, e) == Cardinality({i \in DOMAIN seq : seq[i] = e})

alive == exit_code = Running

----------------------------------------------------------------------------
\* TradingBot.validate_environment, by the outcome of the collaborators:
\* "ok", "invalid" (ValueError or SecurityError, caught), "raises" (any other
\* exception, which leaves the method).
validate_environment_bot(b, o) ==
    IF o = "ok" THEN [b EXCEPT !.config = ConfigObj] ELSE b

validate_environment_events(o) ==
    CASE o = "ok" -> <<"environment_validation">>
      [] o = "invalid" -> <<"environment_validation_failed">>
      [] OTHER -> << >>

\* health_check as it would be if liveness were gated on the readiness flag
health_check_gated(b) == IF b.is_ready THEN 200 ELSE 503

\* TradingBot.health_check
health_check(b) == 200

\* readiness_check as it would be with "or" in place of "and" at line 85
readiness_check_or(b) ==
    IF b.is_ready \/ b.telegram_handler # None THEN 200 ELSE 503

\* TradingBot.readiness_check
readiness_check(b) ==
    IF b.is_ready /\ b.telegram_handler # None THEN 200 ELSE 503

\* metrics_endpoint as it would be with get_cache_stats() called outside
\* the try block: its exception leaves the handler
metrics_endpoint_partial(b, fault) ==
    CASE fault = "none" ->
           [status |-> 200,
            body |-> [ready |-> b.is_ready,
                      telegram_handler_status |->
                          IF b.telegram_handler # None THEN "active" ELSE "inactive"]]
      [] fault = "summary" ->
           [status |-> 500, body |-> [error |-> "Metrics unavailable"]]
      [] OTHER ->
           [status |-> 0, body |-> [unhandled |-> fault]]

\* TradingBot.metrics_endpoint, lines 90-116.  fault names the collaborator
\* call that raises: metrics.get_metrics_summary ("summary"),
\* get_cache_stats ("cache_stats"), or none.  Both calls are inside the try
\* block, whose except clause answers 500 with a fixed payload.
metrics_endpoint(b, fault) ==
    IF fault = "none"
    THEN [status |-> 200,
          body |-> [ready |-> b.is_ready,
                    telegram_handler_status |->
                        IF b.telegram_handler # None THEN "active" ELSE "inactive"]]
    ELSE [status |-> 500, body |-> [error |-> "Metrics unavailable"]]

----------------------------------------------------------------------------
Init ==
    /\ entry \in {"script", "import"}
    /\ loop_running \in (IF entry = "script" THEN {FALSE} ELSE BOOLEAN)
    /\ pc = IF entry = "script" THEN "not_started" ELSE "not_run"
    /\ pc_init = "unscheduled"
    /\ bot = None
    /\ bot_instance = None
    /\ app = None
    /\ server = "none"
    /\ app_serving = FALSE
    /\ preload = "none"
    /\ waited = 0
    /\ handler_run = "not_started"
    /\ pending = "none"
    /\ exit_code = Running
    /\ events = << >>
    /\ teardown = << >>
    /\ signals = 0
    /\ sig_in_ready = FALSE
    /\ handlers_installed = FALSE
    /\ create_calls = 0
    /\ ready_reports = 0
    /\ resp = [path |-> "none", status |-> 0]
    /\ nprobes = 0

\* What the steps of main() leave alone.
AppUnchanged == UNCHANGED <<entry, pc_init, bot_instance, app, app_serving,
                            handlers_installed, create_calls>>
ProbeUnchanged == UNCHANGED <<resp, nprobes>>
SignalUnchanged == UNCHANGED <<signals, sig_in_ready>>
CollectorUnchanged == UNCHANGED ready_reports

----------------------------------------------------------------------------
\* main(), lines 137-215, one action per synchronous step.

\* __main__ block (267-277) runs main(); lines 139-144
main_begin ==
    /\ alive /\ entry = "script" /\ pc = "not_started"
    /\ loop_running' = TRUE
    /\ bot' = TradingBot_init
    /\ events' = events \o <<"bot_initialization", "bot_startup">>
    /\ pc' = "validate"
    /\ UNCHANGED <<server, preload, waited, handler_run, pending, exit_code, teardown>>
    /\ AppUnchanged /\ ProbeUnchanged /\ SignalUnchanged
    /\ CollectorUnchanged

\* lines 147-150 as they would be if the result of validate_environment
\* were not tested: startup goes on after a failed validation
main_validate_unchecked ==
    /\ alive /\ pc = "validate"
    /\ \E o \in {"ok", "invalid", "raises"} :
         /\ bot' = validate_environment_bot(bot, o)
         /\ events' = events \o validate_environment_events(o)
         /\ pc' = IF o = "raises" THEN "except_exception" ELSE "spawn_preload"
    /\ UNCHANGED <<loop_running, server, preload, waited, handler_run, pending,
                   exit_code, teardown>>
    /\ AppUnchanged /\ ProbeUnchanged /\ SignalUnchanged
    /\ CollectorUnchanged

\* lines 147-150: a False result ends in sys.exit(1); SystemExit is no
\* Exception, so it skips both except clauses and reaches finally.
main_validate ==
    /\ alive /\ pc = "validate"
    /\ \E o \in {"ok", "invalid", "raises"} :
         /\ bot' = validate_environment_bot(bot, o)
         /\ events' = events \o validate_environment_events(o)
                             \o (IF o = "invalid" THEN <<"startup_failed">> ELSE << >>)
         /\ pc' = CASE o = "ok" -> "spawn_preload"
                    [] o = "invalid" -> "finally"
                    [] OTHER -> "except_exception"
         /\ pending' = IF o = "invalid" THEN "SystemExit1" ELSE pending
    /\ UNCHANGED <<loop_running, server, preload, waited, handler_run, exit_code, teardown>>
    /\ AppUnchanged /\ ProbeUnchanged /\ SignalUnchanged
    /\ CollectorUnchanged

\* line 155: asyncio.create_task(preloader.start_preloading())
main_spawn_preload ==
    /\ alive /\ pc = "spawn_preload"
    /\ preload' = "pending"
    /\ pc' = "bg_services"
    /\ UNCHANGED <<loop_running, bot, server, waited, handler_run, pending,
                   exit_code, events, teardown>>
    /\ AppUnchanged /\ ProbeUnchanged /\ SignalUnchanged
    /\ CollectorUnchanged

\* lines 158-159: start_metrics_server, setup_periodic_cleanup
main_start_background ==
    /\ alive /\ pc = "bg_services"
    /\ \E ok \in BOOLEAN :
         pc' = IF ok THEN "start_server" ELSE "except_exception"
    /\ UNCHANGED <<loop_running, bot, server, preload, waited, handler_run,
                   pending, exit_code, events, teardown>>
    /\ AppUnchanged /\ ProbeUnchanged /\ SignalUnchanged
    /\ CollectorUnchanged

\* line 162, the call: main() suspends in start_health_server (118-132)
main_start_health_server ==
    /\ alive /\ pc = "start_server"
    /\ pc' = "await_server"
    /\ UNCHANGED <<loop_running, bot, server, preload, waited, handler_run,
                   pending, exit_code, events, teardown>>
    /\ AppUnchanged /\ ProbeUnchanged /\ SignalUnchanged
    /\ CollectorUnchanged

\* line 162 as it would be if startup went on without the server being
\* started and bound to the orchestrator
main_health_server_unbound ==
    /\ alive /\ pc = "await_server"
    /\ \E ok \in BOOLEAN :
         pc' = IF ok THEN "create_handler" ELSE "except_exception"
    /\ UNCHANGED <<loop_running, bot, server, preload, waited, handler_run,
                   pending, exit_code, events, teardown>>
    /\ AppUnchanged /\ ProbeUnchanged /\ SignalUnchanged
    /\ CollectorUnchanged

\* line 162, the result: the site listens and the runner is bound to
\* bot.health_server, or runner.setup()/site.start() raised
main_health_server_started ==
    /\ alive /\ pc = "await_server"
    /\ \E ok \in BOOLEAN :
         IF ok
         THEN /\ server' = "serving"
              /\ bot' = [bot EXCEPT !.health_server = AppRunnerObj]
              /\ pc' = "create_handler"
         ELSE /\ pc' = "except_exception"
              /\ UNCHANGED <<server, bot>>
    /\ UNCHANGED <<loop_running, preload, waited, handler_run, pending,
                   exit_code, events, teardown>>
    /\ AppUnchanged /\ ProbeUnchanged /\ SignalUnchanged
    /\ CollectorUnchanged

\* lines 165-167, then the call of wait_for at line 171
main_create_handler ==
    /\ alive /\ pc = "create_handler"
    /\ \E ok \in BOOLEAN :
         IF ok
         THEN /\ bot' = [bot EXCEPT !.telegram_handler = TelegramHandlerObj]
              /\ events' = Append(events, "telegram_handler_initialized")
              /\ pc' = "await_preload"
         ELSE /\ pc' = "except_exception"
              /\ UNCHANGED <<bot, events>>
    /\ waited' = 0
    /\ UNCHANGED <<loop_running, server, preload, handler_run, pending,
                   exit_code, teardown>>
    /\ AppUnchanged /\ ProbeUnchanged /\ SignalUnchanged
    /\ CollectorUnchanged

----------------------------------------------------------------------------
\* The preload task and asyncio.wait_for(preload_task, timeout=30.0), 170-179.

\* preloader.start_preloading() runs while main() is suspended; it returns or raises
preload_task_finishes ==
    /\ alive /\ preload = "pending" /\ pc \in {"await_server", "await_preload"}
    /\ \E o \in {"done", "failed"} : preload' = o
    /\ UNCHANGED <<loop_running, pc, bot, server, waited, handler_run, pending,
                   exit_code, events, teardown>>
    /\ AppUnchanged /\ ProbeUnchanged /\ SignalUnchanged
    /\ CollectorUnchanged

\* one time unit passes while wait_for is waiting
main_wait_tick ==
    /\ alive /\ pc = "await_preload" /\ preload = "pending"
    /\ waited < PRELOAD_TIMEOUT
    /\ waited' = waited + 1
    /\ UNCHANGED <<loop_running, pc, bot, server, preload, handler_run, pending,
                   exit_code, events, teardown>>
    /\ AppUnchanged /\ ProbeUnchanged /\ SignalUnchanged
    /\ CollectorUnchanged

\* lines 171-173
main_preload_completed ==
    /\ alive /\ pc = "await_preload" /\ preload = "done"
    /\ events' = Append(events, "preloading_completed")
    /\ pc' = "mark_ready"
    /\ UNCHANGED <<loop_running, bot, server, preload, waited, handler_run,
                   pending, exit_code, teardown>>
    /\ AppUnchanged /\ ProbeUnchanged /\ SignalUnchanged
    /\ CollectorUnchanged

\* lines 174-179 as they would be without the inner except clauses: the
\* TimeoutError reaches the clause of line 204
main_preload_timeout_fatal ==
    /\ alive /\ pc = "await_preload" /\ preload = "pending"
    /\ waited = PRELOAD_TIMEOUT
    /\ preload' = "cancelled"
    /\ pc' = "except_exception"
    /\ UNCHANGED <<loop_running, bot, server, waited, handler_run, pending,
                   exit_code, events, teardown>>
    /\ AppUnchanged /\ ProbeUnchanged /\ SignalUnchanged
    /\ CollectorUnchanged

\* lines 174-176: wait_for cancels the task and raises TimeoutError
main_preload_timeout ==
    /\ alive /\ pc = "await_preload" /\ preload = "pending"
    /\ waited = PRELOAD_TIMEOUT
    /\ preload' = "cancelled"
    /\ events' = Append(events, "preloading_timeout")
    /\ pc' = "mark_ready"
    /\ UNCHANGED <<loop_running, bot, server, waited, handler_run, pending,
                   exit_code, teardown>>
    /\ AppUnchanged /\ ProbeUnchanged /\ SignalUnchanged
    /\ CollectorUnchanged

\* lines 177-179 as they would be without the clause of line 177: the
\* task's exception reaches the clause of line 204
main_preload_failed_fatal ==
    /\ alive /\ pc = "await_preload" /\ preload = "failed"
    /\ events' = Append(events, "preloading_failed")
    /\ pc' = "except_exception"
    /\ UNCHANGED <<loop_running, bot, server, preload, waited, handler_run,
                   pending, exit_code, teardown>>
    /\ AppUnchanged /\ ProbeUnchanged /\ SignalUnchanged
    /\ CollectorUnchanged

\* lines 177-179
main_preload_failed ==
    /\ alive /\ pc = "await_preload" /\ preload = "failed"
    /\ events' = Append(events, "preloading_failed")
    /\ pc' = "mark_ready"
    /\ UNCHANGED <<loop_running, bot, server, preload, waited, handler_run,
                   pending, exit_code, teardown>>
    /\ AppUnchanged /\ ProbeUnchanged /\ SignalUnchanged
    /\ CollectorUnchanged

----------------------------------------------------------------------------
\* lines 182-183 as they would be without the call of line 183
main_mark_ready_unreported ==
    /\ alive /\ pc = "mark_ready"
    /\ bot' = [bot EXCEPT !.is_ready = TRUE]
    /\ UNCHANGED ready_reports
    /\ \E ok \in BOOLEAN :
         pc' = IF ok THEN "log_startup" ELSE "except_exception"
    /\ UNCHANGED <<loop_running, server, preload, waited, handler_run, pending,
                   exit_code, events, teardown>>
    /\ AppUnchanged /\ ProbeUnchanged /\ SignalUnchanged

\* lines 182-183: the flag is set before metrics.set_ready_status, which may raise
main_mark_ready ==
    /\ alive /\ pc = "mark_ready"
    /\ bot' = [bot EXCEPT !.is_ready = TRUE]
    /\ ready_reports' = ready_reports + 1
    /\ \E ok \in BOOLEAN :
         pc' = IF ok THEN "log_startup" ELSE "except_exception"
    /\ UNCHANGED <<loop_running, server, preload, waited, handler_run, pending,
                   exit_code, events, teardown>>
    /\ AppUnchanged /\ ProbeUnchanged /\ SignalUnchanged

\* lines 186-196: get_cache_stats and the lookups of line 187 and 192 may raise
main_log_startup ==
    /\ alive /\ pc = "log_startup"
    /\ \E ok \in BOOLEAN :
         IF ok
         THEN /\ events' = Append(events, "bot_startup_complete")
              /\ pc' = "run_handler"
         ELSE /\ pc' = "except_exception"
              /\ UNCHANGED events
    /\ UNCHANGED <<loop_running, bot, server, preload, waited, handler_run,
                   pending, exit_code, teardown>>
    /\ AppUnchanged /\ ProbeUnchanged /\ SignalUnchanged
    /\ CollectorUnchanged

\* line 199, the call: main() suspends in telegram_handler.run()
main_run_handler ==
    /\ alive /\ pc = "run_handler"
    /\ handler_run' = "running"
    /\ pc' = "await_run"
    /\ UNCHANGED <<loop_running, bot, server, preload, waited, pending,
                   exit_code, events, teardown>>
    /\ AppUnchanged /\ ProbeUnchanged /\ SignalUnchanged
    /\ CollectorUnchanged

\* telegram_handler.run() returns or raises an Exception.  main() awaits it
\* (line 199); init_bot only spawns it as a task nobody awaits (line 257).
handler_run_ends ==
    /\ alive /\ handler_run = "running"
    /\ \E o \in {"returned", "raised"} :
         /\ handler_run' = o
         /\ pc' = CASE pc # "await_run" -> pc
                    [] o = "returned" -> "finally"
                    [] OTHER -> "except_exception"
    /\ UNCHANGED <<loop_running, bot, server, preload, waited, pending,
                   exit_code, events, teardown>>
    /\ AppUnchanged /\ ProbeUnchanged /\ SignalUnchanged
    /\ CollectorUnchanged

----------------------------------------------------------------------------
\* lines 201-203
main_except_keyboard_interrupt ==
    /\ alive /\ pc = "except_keyboard"
    /\ events' = Append(events, "bot_shutdown_user")
    /\ pc' = "finally"
    /\ UNCHANGED <<loop_running, bot, server, preload, waited, handler_run,
                   pending, exit_code, teardown>>
    /\ AppUnchanged /\ ProbeUnchanged /\ SignalUnchanged
    /\ CollectorUnchanged

\* lines 204-207 as they would be with an exit that unwinds nothing
\* (os._exit in place of sys.exit): the finally block never runs
main_except_exception_abrupt ==
    /\ alive /\ pc = "except_exception"
    /\ events' = Append(events, "bot_crash")
    /\ exit_code' = 1
    /\ pc' = "exited"
    /\ loop_running' = FALSE
    /\ UNCHANGED <<bot, server, preload, waited, handler_run, pending, teardown>>
    /\ AppUnchanged /\ ProbeUnchanged /\ SignalUnchanged
    /\ CollectorUnchanged

\* lines 204-207
main_except_exception ==
    /\ alive /\ pc = "except_exception"
    /\ events' = Append(events, "bot_crash")
    /\ pending' = "SystemExit1"
    /\ pc' = "finally"
    /\ UNCHANGED <<loop_running, bot, server, preload, waited, handler_run,
                   exit_code, teardown>>
    /\ AppUnchanged /\ ProbeUnchanged /\ SignalUnchanged
    /\ CollectorUnchanged

\* lines 209-212 as they would be if the finally block only wrote the
\* final event
main_finally_no_cleanup ==
    /\ alive /\ pc = "finally"
    /\ pc' = "final_audit"
    /\ UNCHANGED <<loop_running, bot, server, preload, waited, handler_run,
                   pending, exit_code, events, teardown>>
    /\ AppUnchanged /\ ProbeUnchanged /\ SignalUnchanged
    /\ CollectorUnchanged

\* lines 209-210, the call: main() suspends in health_server.cleanup()
main_finally ==
    /\ alive /\ pc = "finally"
    /\ IF bot.health_server # None
       THEN /\ server' = "closing"
            /\ teardown' = Append(teardown, "server_cleanup")
            /\ pc' = "await_cleanup"
       ELSE /\ pc' = "final_audit"
            /\ UNCHANGED <<server, teardown>>
    /\ UNCHANGED <<loop_running, bot, preload, waited, handler_run, pending,
                   exit_code, events>>
    /\ AppUnchanged /\ ProbeUnchanged /\ SignalUnchanged
    /\ CollectorUnchanged

\* lines 210-212, the result: cleanup() returned, or it raised and the
\* exception leaves main() from inside finally and ends the process
main_cleanup_ends ==
    /\ alive /\ pc = "await_cleanup"
    /\ \E ok \in BOOLEAN :
         IF ok
         THEN /\ server' = "cleaned"
              /\ events' = Append(events, "health_server_stopped")
              /\ pc' = "final_audit"
              /\ UNCHANGED <<exit_code, loop_running>>
         ELSE /\ server' = "broken"
              /\ pc' = "exited"
              /\ exit_code' = 1
              /\ loop_running' = FALSE
              /\ UNCHANGED events
    /\ UNCHANGED <<bot, preload, waited, handler_run, pending, teardown>>
    /\ AppUnchanged /\ ProbeUnchanged /\ SignalUnchanged
    /\ CollectorUnchanged

\* What the process does with the exception main() ended with.
ExitCodeOf(p) ==
    CASE p = "SystemExit1" -> 1
      [] p = "Interrupt" -> EXIT_SIGINT
      [] OTHER -> 0

\* line 215, then main() ends: with the pending exception, or by returning
\* to the module's last line
main_final_audit ==
    /\ alive /\ pc = "final_audit"
    /\ events' = Append(events, "bot_shutdown_complete")
    /\ teardown' = Append(teardown, "final_audit")
    /\ loop_running' = FALSE
    /\ IF pending = "none"
       THEN pc' = "module_tail" /\ UNCHANGED exit_code
       ELSE pc' = "exited" /\ exit_code' = ExitCodeOf(pending)
    /\ UNCHANGED <<bot, server, preload, waited, handler_run, pending>>
    /\ AppUnchanged /\ ProbeUnchanged /\ SignalUnchanged
    /\ CollectorUnchanged

----------------------------------------------------------------------------
\* What the steps outside main() leave alone.
MainUnchanged == UNCHANGED <<bot, server, preload, waited, pending, teardown>>

\* create_app(), lines 221-265; line 287 calls it when the module is loaded:
\* by a host that imports the module, or by the script once main() has
\* returned.  asyncio.create_task (263) needs a running loop and raises
\* RuntimeError without one; that exception leaves the module's last line.
create_app ==
    /\ alive /\ create_calls < MaxCreateCalls
    /\ \/ entry = "script" /\ pc = "module_tail"
       \/ entry = "import"
    /\ create_calls' = create_calls + 1
    /\ IF app = None
       THEN /\ app' = ApplicationObj
            /\ bot_instance' = TradingBot_init
            /\ events' = Append(events, "bot_initialization")
            /\ IF loop_running
               THEN pc_init' = "scheduled" /\ UNCHANGED <<exit_code, pc>>
               ELSE /\ exit_code' = 1
                    /\ pc' = IF entry = "script" THEN "exited" ELSE pc
                    /\ UNCHANGED pc_init
       ELSE UNCHANGED <<app, bot_instance, events, pc_init, exit_code, pc>>
    /\ UNCHANGED <<entry, loop_running, app_serving, handler_run, handlers_installed>>
    /\ MainUnchanged /\ ProbeUnchanged /\ SignalUnchanged
    /\ CollectorUnchanged

\* init_bot as it would be with lines 250 and 251 exchanged: the flag is
\* set before TelegramHandler() is called, and stays set when that raises
init_bot_flag_first ==
    /\ alive /\ pc_init = "scheduled"
    /\ \E o \in {"invalid", "validate_raises", "background_raises",
                 "handler_raises", "set_ready_raises", "ok"} :
         LET v == CASE o = "invalid" -> "invalid"
                    [] o = "validate_raises" -> "raises"
                    [] OTHER -> "ok"
             validated == validate_environment_bot(bot_instance, v)
             created == o \in {"set_ready_raises", "ok"}
         IN  /\ events' = events \o validate_environment_events(v)
             /\ bot_instance' =
                  IF created
                  THEN [validated EXCEPT !.telegram_handler = TelegramHandlerObj,
                                         !.is_ready = TRUE]
                  ELSE IF o = "handler_raises"
                  THEN [validated EXCEPT !.is_ready = TRUE]
                  ELSE validated
             /\ ready_reports' = IF created THEN ready_reports + 1 ELSE ready_reports
             /\ handler_run' = IF o = "ok" THEN "running" ELSE handler_run
             /\ pc_init' = CASE o = "ok" -> "done"
                             [] o = "invalid" -> "returned"
                             [] OTHER -> "failed"
    /\ UNCHANGED <<entry, loop_running, pc, app, app_serving, exit_code,
                   handlers_installed, create_calls>>
    /\ MainUnchanged /\ ProbeUnchanged /\ SignalUnchanged

\* create_app.init_bot, lines 239-260.  It has no await, so the loop runs it
\* in one piece; o names the first call that fails, if any.
init_bot ==
    /\ alive /\ pc_init = "scheduled"
    /\ \E o \in {"invalid", "validate_raises", "background_raises",
                 "handler_raises", "set_ready_raises", "ok"} :
         LET v == CASE o = "invalid" -> "invalid"
                    [] o = "validate_raises" -> "raises"
                    [] OTHER -> "ok"
             validated == validate_environment_bot(bot_instance, v)
             created == o \in {"set_ready_raises", "ok"}
         IN  /\ events' = events \o validate_environment_events(v)
             /\ bot_instance' =
                  IF created
                  THEN [validated EXCEPT !.telegram_handler = TelegramHandlerObj,
                                         !.is_ready = TRUE]
                  ELSE validated
             /\ ready_reports' = IF created THEN ready_reports + 1 ELSE ready_reports
             /\ handler_run' = IF o = "ok" THEN "running" ELSE handler_run
             /\ pc_init' = CASE o = "ok" -> "done"
                             [] o = "invalid" -> "returned"
                             [] OTHER -> "failed"
    /\ UNCHANGED <<entry, loop_running, pc, app, app_serving, exit_code,
                   handlers_installed, create_calls>>
    /\ MainUnchanged /\ ProbeUnchanged /\ SignalUnchanged

\* The deployment host starts serving the application that create_app returned
\* (line 287: app = create_app(), "For Render deployment").
host_serves_app ==
    /\ alive /\ entry = "import" /\ app # None /\ ~app_serving
    /\ app_serving' = TRUE
    /\ UNCHANGED <<entry, loop_running, pc, pc_init, bot_instance, app,
                   handler_run, exit_code, events, handlers_installed, create_calls>>
    /\ MainUnchanged /\ ProbeUnchanged /\ SignalUnchanged
    /\ CollectorUnchanged

----------------------------------------------------------------------------
\* Termination signals.

\* TradingBot.setup_signal_handlers, lines 68-77.  Neither main() nor
\* create_app() calls it; only code that holds the orchestrator can, and
\* main()'s orchestrator is a local, so that is the module's bot_instance.
setup_signal_handlers ==
    /\ alive /\ entry = "import" /\ bot_instance # None /\ ~handlers_installed
    /\ handlers_installed' = TRUE
    /\ UNCHANGED <<entry, loop_running, pc, pc_init, bot_instance, app,
                   app_serving, handler_run, exit_code, events, create_calls>>
    /\ MainUnchanged /\ ProbeUnchanged /\ SignalUnchanged
    /\ CollectorUnchanged

\* main() is in Ready: the flag is set and the handler runs
InReady == entry = "script" /\ pc = "await_run"

\* signal_handler, lines 70-74, for SIGINT and SIGTERM once registered.
\* Only bot_instance can have it registered, and create_app never binds
\* health_server, so line 73 is not reached; sys.exit(0) ends the process.
signal_handler ==
    /\ alive /\ handlers_installed /\ signals < MaxSignals
    /\ signals' = signals + 1
    /\ sig_in_ready' = (sig_in_ready \/ InReady)
    /\ server' = IF bot_instance.health_server # None THEN "stopped" ELSE server
    /\ exit_code' = 0
    /\ UNCHANGED <<entry, loop_running, pc, pc_init, bot, bot_instance, app,
                   app_serving, preload, waited, handler_run, pending, events,
                   teardown, handlers_installed, create_calls>>
    /\ ProbeUnchanged /\ CollectorUnchanged

\* SIGTERM with no handler registered: the default disposition ends the
\* process at once; no Python code runs, no finally block.
sigterm_default ==
    /\ alive /\ ~handlers_installed /\ signals < MaxSignals
    /\ signals' = signals + 1
    /\ sig_in_ready' = (sig_in_ready \/ InReady)
    /\ exit_code' = EXIT_SIGTERM
    /\ pc' = IF entry = "script" THEN "exited" ELSE pc
    /\ UNCHANGED <<entry, loop_running, pc_init, bot, bot_instance, app, server,
                   app_serving, preload, waited, handler_run, pending, events,
                   teardown, handlers_installed, create_calls>>
    /\ ProbeUnchanged /\ CollectorUnchanged

\* the try block of main(), lines 142-199
TryPcs == {"validate", "spawn_preload", "bg_services", "start_server",
           "await_server", "create_handler", "await_preload", "mark_ready",
           "log_startup", "run_handler", "await_run"}

\* SIGINT with no handler registered.  Inside the try block of main() the
\* interpreter raises KeyboardInterrupt in main()'s own frames (caught at
\* line 201), or the loop cancels the main task (CancelledError passes both
\* except clauses and the process ends with KeyboardInterrupt).  Inside an
\* except clause the interrupt replaces the exception being handled; inside
\* finally it ends the block where it stands.  Anywhere else nothing handles it.
sigint_default ==
    /\ alive /\ ~handlers_installed /\ signals < MaxSignals
    /\ signals' = signals + 1
    /\ sig_in_ready' = (sig_in_ready \/ InReady)
    /\ \/ /\ pc \in TryPcs
          /\ pc' = "except_keyboard"
          /\ UNCHANGED <<pending, exit_code, loop_running>>
       \/ /\ pc \in TryPcs \cup {"except_exception", "except_keyboard"}
          /\ pc' = "finally"
          /\ pending' = "Interrupt"
          /\ UNCHANGED <<exit_code, loop_running>>
       \/ /\ pc \notin TryPcs \cup {"except_exception", "except_keyboard"}
          /\ exit_code' = EXIT_SIGINT
          /\ pc' = IF entry = "script" THEN "exited" ELSE pc
          /\ loop_running' = FALSE
          /\ UNCHANGED pending
    /\ handler_run' = IF pc = "await_run" THEN "interrupted" ELSE handler_run
    /\ UNCHANGED <<entry, pc_init, bot, bot_instance, app, server, app_serving,
                   preload, waited, events, teardown, handlers_installed,
                   create_calls>>
    /\ ProbeUnchanged /\ CollectorUnchanged

----------------------------------------------------------------------------
\* Probes.  The routes of the script's server are bound to bot (121-122),
\* those of the deployed application to bot_instance (233-234).
ServingBot == IF entry = "script" THEN bot ELSE bot_instance

\* A probe is answered when the server accepts or still drains requests and
\* the loop is free to run the handler.
CanAnswer ==
    /\ alive
    /\ \/ /\ entry = "script"
          /\ server \in {"serving", "closing"}
          /\ pc \in {"await_preload", "await_run", "await_cleanup"}
       \/ /\ entry = "import"
          /\ app_serving

StateUnchanged ==
    UNCHANGED <<entry, loop_running, pc, pc_init, bot, bot_instance, app,
                server, app_serving, preload, waited, handler_run, pending,
                exit_code, events, teardown, signals, sig_in_ready,
                handlers_installed, create_calls, ready_reports>>

\* GET /health
GET_health ==
    /\ CanAnswer /\ nprobes < MaxProbes
    /\ resp' = [path |-> "/health", status |-> health_check(ServingBot)]
    /\ nprobes' = nprobes + 1
    /\ StateUnchanged

\* GET /ready
GET_ready ==
    /\ CanAnswer /\ nprobes < MaxProbes
    /\ resp' = [path |-> "/ready", status |-> readiness_check(ServingBot)]
    /\ nprobes' = nprobes + 1
    /\ StateUnchanged

\* GET /metrics
GET_metrics ==
    /\ CanAnswer /\ nprobes < MaxProbes
    /\ \E fault \in {"none", "summary", "cache_stats"} :
         LET r == metrics_endpoint(ServingBot, fault)
         IN  resp' = [path |-> "/metrics", status |-> r.status,
                      body |-> r.body, fault |-> fault]
    /\ nprobes' = nprobes + 1
    /\ StateUnchanged

----------------------------------------------------------------------------
Next ==
    \/ main_begin
    \/ main_validate
    \/ main_spawn_preload
    \/ main_start_background
    \/ main_start_health_server
    \/ main_health_server_started
    \/ main_create_handler
    \/ preload_task_finishes
    \/ main_wait_tick
    \/ main_preload_completed
    \/ main_preload_timeout
    \/ main_preload_failed
    \/ main_mark_ready
    \/ main_log_startup
    \/ main_run_handler
    \/ handler_run_ends
    \/ main_except_keyboard_interrupt
    \/ main_except_exception
    \/ main_finally
    \/ main_cleanup_ends
    \/ main_final_audit
    \/ create_app
    \/ init_bot
    \/ host_serves_app
    \/ setup_signal_handlers
    \/ signal_handler
    \/ sigterm_default
    \/ sigint_default
    \/ GET_health
    \/ GET_ready
    \/ GET_metrics

Spec == Init /\ [][Next]_vars

TypeOK ==
    /\ exit_code \in {Running, 0, 1, EXIT_SIGINT, EXIT_SIGTERM}
    /\ waited \in 0..PRELOAD_TIMEOUT
    /\ signals \in 0..MaxSignals
    /\ nprobes \in 0..MaxProbes

\* The scheduler runs a runnable step of main() sooner or later: the event
\* loop resumes the main task once what it awaits has ended.
LiveSpec == Spec /\ WF_vars(main_mark_ready)

----------------------------------------------------------------------------
\* Lifecycle states of the orchestrator, read off the program's state.

\* validate_environment returned False (lines 63-66)
ValidationFailed == Count(events, "environment_validation_failed") > 0

\* the except clause of line 204 was entered
Crashed == Count(events, "bot_crash") > 0

\* the ReadinessFlag of orchestrator b is set
IsReady(b) == b # None /\ b.is_ready

\* a handler handle is held by orchestrator b
HasHandler(b) == b # None /\ b.telegram_handler # None

\* the Endpoint Server of main() was started (line 162)
ServerStarted == bot # None /\ bot.health_server # None

----------------------------------------------------------------------------
\* C1: if validate_environment returns False then, in main() and in init_bot
\* alike, the Endpoint Server is never started, the Handler is never created,
\* and once the entry path has dealt with the failure the process has exited
\* with a nonzero status.
C1_InvalidConfigExitsNonzero ==
    ValidationFailed =>
        /\ server = "none"
        /\ ~HasHandler(bot) /\ ~HasHandler(bot_instance)
        /\ (pc = "exited" \/ pc_init = "returned") => exit_code \notin {Running, 0}

\* C2: every answer to GET /ready is 200 exactly when is_ready is true and a
\* telegram_handler is held, and 503 otherwise.
C2_ReadyIffFlagAndHandler ==
    [][(nprobes' # nprobes /\ resp'.path = "/ready") =>
         /\ resp'.status \in {200, 503}
         /\ resp'.status = 200 <=>
              (ServingBot.is_ready /\ ServingBot.telegram_handler # None)]_vars

\* a /ready probe was refused while the handler was held but the flag not yet set
C2_Witness ==
    /\ resp.path = "/ready" /\ resp.status = 503
    /\ HasHandler(ServingBot) /\ ~ServingBot.is_ready

\* C3: every answer to GET /health is 200, whatever the flag, the handler and
\* the preload task are.
C3_HealthAlways200 ==
    [][(nprobes' # nprobes /\ resp'.path = "/health") => resp'.status = 200]_vars

\* /health answered 200 with no handler, the flag unset
C3_Witness ==
    /\ resp.path = "/health" /\ resp.status = 200
    /\ ServingBot # None /\ ~HasHandler(ServingBot) /\ ~ServingBot.is_ready

\* C4: in main(), whenever /ready would answer 200 the Endpoint Server has
\* already been started, so /health has been able to answer 200.
C4_HealthBeforeReady ==
    (bot # None /\ readiness_check(bot) = 200) => (ServerStarted /\ server # "none")

\* /health has answered 200 while /ready would still answer 503
C4_Witness ==
    /\ entry = "script" /\ resp.path = "/health" /\ resp.status = 200
    /\ readiness_check(bot) = 503

\* C5: when wait_for times out, the wait has lasted exactly the timeout, the
\* timeout event is recorded once, and startup goes on to set is_ready
\* (unless a termination signal cuts it short).
C5_TimeoutStillReady ==
    /\ [](preload = "cancelled" =>
            /\ waited = PRELOAD_TIMEOUT
            /\ Count(events, "preloading_timeout") = 1
            /\ Count(events, "preloading_completed") = 0
            /\ Count(events, "preloading_failed") = 0
            /\ (IsReady(bot) \/ pc = "mark_ready" \/ signals > 0))
    /\ (preload = "cancelled") ~> (IsReady(bot) \/ signals > 0)

\* Ready was reached after a preload timeout
C5_Witness ==
    /\ preload = "cancelled" /\ IsReady(bot) /\ pc = "await_run"
    /\ signals = 0 /\ Count(events, "bot_startup_complete") = 1

\* C6: /ready answers 200 only after the handler is created and the flag is
\* set, and never again once a termination signal has been received.
C6_NoReadyAfterSignal ==
    [][(nprobes' # nprobes /\ resp'.path = "/ready" /\ resp'.status = 200) =>
         /\ HasHandler(ServingBot) /\ ServingBot.is_ready
         /\ signals = 0]_vars

\* C7: whatever signals were delivered, once the process has ended the
\* cleanup sequence of a started server ran exactly once.
C7_CleanupExactlyOnce ==
    (~alive /\ signals > 0 /\ ServerStarted) =>
        /\ Count(teardown, "server_cleanup") = 1
        /\ Count(teardown, "final_audit") = 1

\* C8: a termination signal received in Ready ends in an orderly stop: the
\* Endpoint Server torn down, the final audit event written, exit code 0.
C8_SignalInReadyExitsZero ==
    (~alive /\ sig_in_ready) =>
        /\ server = "cleaned"
        /\ Count(events, "bot_shutdown_complete") = 1
        /\ exit_code = 0

\* C9: in main(), when telegram_handler.run() raised after Ready and no signal
\* interfered, the process ends Crashed, with the server's cleanup awaited
\* once and exit code 1.
C9_HandlerCrashExitsOne ==
    (pc = "exited" /\ handler_run = "raised" /\ signals = 0) =>
        /\ Crashed
        /\ Count(teardown, "server_cleanup") = 1
        /\ server \in {"cleaned", "broken"}
        /\ exit_code = 1

\* the handler crashed in Ready and the process ended after full cleanup
C9_Witness ==
    /\ pc = "exited" /\ handler_run = "raised" /\ signals = 0
    /\ bot.is_ready /\ server = "cleaned" /\ exit_code = 1

\* C10: a main() that ran its shutdown to the end after a crash or an
\* interrupt, with a handler and a server in hand, has stopped the handler,
\* then torn down the server, then written the final audit event, each once
\* and in that order.
C10_OrderedShutdown ==
    (/\ pc \in {"exited", "module_tail"}
     /\ Crashed \/ Count(events, "bot_shutdown_user") > 0
     /\ HasHandler(bot) /\ ServerStarted
     /\ Count(events, "bot_shutdown_complete") = 1) =>
        teardown = <<"handler_stop", "server_cleanup", "final_audit">>

\* C11: when the server's cleanup raises inside the finally block, the steps
\* after it still run: the final audit event is written.
C11_CleanupStepsIndependent ==
    (~alive /\ server = "broken" /\ signals = 0) =>
        /\ Count(events, "bot_shutdown_complete") = 1
        /\ Count(teardown, "final_audit") = 1

\* C12: a /metrics probe whose aggregation fails is answered 500 with the
\* generic error payload, and answering it changes nothing of the lifecycle
\* state: flag, handler, server and process are as before.
C12_MetricsFailureIs500 ==
    [][(nprobes' # nprobes /\ resp'.path = "/metrics" /\ resp'.fault # "none") =>
         /\ resp'.status = 500
         /\ resp'.body = [error |-> "Metrics unavailable"]
         /\ UNCHANGED <<bot, bot_instance, server, app_serving, pc, pc_init,
                        handler_run, exit_code, events>>]_vars

\* the cache statistics failed and the probe was answered 500 while Ready
C12_Witness ==
    /\ resp.path = "/metrics" /\ resp.fault = "cache_stats" /\ resp.status = 500
    /\ IsReady(ServingBot) /\ alive

\* validate_environment of orchestrator b has returned True (line 53 bound config)
Validated(b) == b # None /\ b.config # None

C14_HandlerCrashPropagates ==
    (handler_run = "raised" /\ signals = 0) =>
        /\ pc = "except_exception" \/ Crashed
        /\ (alive /\ CanAnswer) => readiness_check(ServingBot) = 503 \/ Crashed

\* C15: a setup error during Initializing (background services, server start
\* or handler creation raising, after a successful validation) ends in Crashed
\* with a nonzero exit, the flag never set: for main() once it has ended, for
\* init_bot once it has returned.
C15_SetupErrorCrashes ==
    /\ (pc = "exited" /\ signals = 0 /\ Crashed /\ Validated(bot) /\ ~HasHandler(bot)) =>
           (exit_code = 1 /\ ~IsReady(bot))
    /\ (pc_init = "failed" /\ Validated(bot_instance) /\ ~HasHandler(bot_instance)) =>
           (exit_code \notin {Running, 0} /\ ~IsReady(bot_instance))

\* C16: when wait_for hands main() the preload task's failure, the failure is
\* recorded once as preloading_failed and startup goes on to set is_ready
\* (unless a termination signal cuts it short); the failure itself causes no
\* crash.
C16_PreloadFailureStillReady ==
    /\ [](Count(events, "preloading_failed") > 0 =>
            /\ Count(events, "preloading_failed") = 1
            /\ preload = "failed"
            /\ (IsReady(bot) \/ pc = "mark_ready" \/ signals > 0)
            /\ (pc \in {"mark_ready", "log_startup", "run_handler", "await_run"}
                  => ~Crashed))
    /\ (Count(events, "preloading_failed") > 0) ~> (IsReady(bot) \/ signals > 0)

\* Ready was reached after the preload task had failed
C16_Witness ==
    /\ preload = "failed" /\ Count(events, "preloading_failed") = 1
    /\ IsReady(bot) /\ pc = "await_run" /\ signals = 0 /\ ~Crashed

\* C17: the flag of an orchestrator is never taken back, so it is written
\* from false to true at most once; the step that writes it also calls
\* metrics.set_ready_status(True), and that call is made in no other step.
C17_ReadyWrittenOnceAndReported ==
    [][/\ IsReady(bot) => IsReady(bot)'
       /\ IsReady(bot_instance) => IsReady(bot_instance)'
       /\ ((~IsReady(bot) /\ IsReady(bot)')
             \/ (~IsReady(bot_instance) /\ IsReady(bot_instance)'))
            <=> ready_reports' = ready_reports + 1
       /\ ready_reports' \in {ready_reports, ready_reports + 1}]_vars

\* the deployed orchestrator has set its flag and reported it once
C17_Witness ==
    /\ IsReady(bot_instance) /\ ready_reports = 1 /\ handler_run = "running"

\* orchestrators constructed by create_app: every TradingBot() writes
\* bot_initialization (line 42), and main() constructs one of its own
ConstructedByCreateApp ==
    Count(events, "bot_initialization") - (IF bot # None THEN 1 ELSE 0)

\* C18: after any number of create_app() calls there is one application, one
\* orchestrator constructed by create_app, and init_bot has been scheduled
\* once (it is waiting to run or has run).
C18_CreateAppOnce ==
    create_calls >= 1 =>
        /\ app = ApplicationObj /\ bot_instance # None
        /\ ConstructedByCreateApp = 1
        /\ pc_init # "unscheduled"

\* C19: on both entry paths, an orchestrator whose flag is set holds a handler
\* and has passed validation.
C19_ReadyImpliesHandlerAndConfig ==
    \A b \in {bot, bot_instance} :
        IsReady(b) => (b.telegram_handler = TelegramHandlerObj /\ b.config = ConfigObj)

\* the deployed orchestrator is ready although reporting it failed
C19_Witness ==
    /\ pc_init = "failed" /\ IsReady(bot_instance)
    /\ bot_instance.telegram_handler = TelegramHandlerObj

\* the events main() wrote: those of the process, less the bot_initialization
\* of the orchestrator that line 287 constructs after main() has returned
MainEvents ==
    IF entry = "script" /\ create_calls > 0
    THEN SubSeq(events, 1, Len(events) - 1)
    ELSE events

\* main() has ended by one of its own exit paths, with no failure of the
\* server's cleanup: no signal at all, or the one SIGINT that line 201 caught
MainEndedOrderly ==
    /\ entry = "script" /\ pc \in {"module_tail", "exited"}
    /\ server # "broken"
    /\ signals = 0 \/ (signals = 1 /\ Count(events, "bot_shutdown_user") = 1)

====
